---- MODULE Spec2Model ----
(***************************************************************************)
(* Model of src/api/main.py: the POST /recommend and GET /history handlers *)
(* of the movie recommender, with the text handling they rely on           *)
(* (str.strip, str.find/rfind, json.loads, json.dumps, str()).             *)
(*                                                                         *)
(* Texts are sequences of one-character strings.  Python values are        *)
(* records [t, s, keys, kids]: t is the type ("str", "num", "null",        *)
(* "bool", "list", "dict"), s the characters of a string (or the literal   *)
(* of a number or boolean), kids the elements of a list or the values of a *)
(* dict, keys the keys of a dict in insertion order.                       *)
(***************************************************************************)
EXTENDS Integers, Sequences, FiniteSets, TLC

(***************************************************************************)
(* Python values                                                           *)
(***************************************************************************)
PyStrVal(s) == [t |-> "str", s |-> s, keys |-> <<>>, kids |-> <<>>]
PyNum(s) == [t |-> "num", s |-> s, keys |-> <<>>, kids |-> <<>>]
PyBool(s) == [t |-> "bool", s |-> s, keys |-> <<>>, kids |-> <<>>]
PyNone == [t |-> "null", s |-> <<>>, keys |-> <<>>, kids |-> <<>>]
PyList(kids) == [t |-> "list", s |-> <<>>, keys |-> <<>>, kids |-> kids]
PyDict(keys, kids) == [t |-> "dict", s |-> <<>>, keys |-> keys, kids |-> kids]

\* isinstance(v, str), isinstance(v, dict), isinstance(v, list)
IsStr(v) == v.t = "str"
IsDict(v) == v.t = "dict"
IsList(v) == v.t = "list"

\* "key in d" for a dict d
HasKey(d, k) == \E i \in 1..Len(d.keys) : d.keys[i] = k

\* d.get(k): the value under k, None when k is absent
DictGet(d, k) ==
    IF HasKey(d, k)
    THEN d.kids[CHOOSE i \in 1..Len(d.keys) : d.keys[i] = k]
    ELSE PyNone

\* d[k] = v: a new key is appended, an existing key keeps its place
DictPut(d, k, v) ==
    IF HasKey(d, k)
    THEN PyDict(d.keys,
                [d.kids EXCEPT ![CHOOSE i \in 1..Len(d.keys) : d.keys[i] = k] = v])
    ELSE PyDict(Append(d.keys, k), Append(d.kids, v))

(***************************************************************************)
(* Text helpers                                                            *)
(***************************************************************************)
\* Characters str.strip() removes and json.loads skips between tokens
Whitespace == {" ", "\n"}

\* str.strip(): the text without its leading and trailing whitespace
Strip(s) ==
    LET keep == {i \in 1..Len(s) : s[i] \notin Whitespace}
    IN  IF keep = {} THEN <<>>
        ELSE LET lo == CHOOSE i \in keep : \A j \in keep : i <= j
                 hi == CHOOSE i \in keep : \A j \in keep : i >= j
             IN  SubSeq(s, lo, hi)

\* str.find(c): 0-based index of the first occurrence of c, -1 when absent
Find(s, c) ==
    LET at == {i \in 1..Len(s) : s[i] = c}
    IN  IF at = {} THEN -1
        ELSE (CHOOSE i \in at : \A j \in at : i <= j) - 1

\* variant: the first occurrence is taken for the last
RFindFirst(s, c) ==
    LET at == {i \in 1..Len(s) : s[i] = c}
    IN  IF at = {} THEN -1
        ELSE (CHOOSE i \in at : \A j \in at : i <= j) - 1

\* str.rfind(c): 0-based index of the last occurrence of c, -1 when absent
RFind(s, c) ==
    LET at == {i \in 1..Len(s) : s[i] = c}
    IN  IF at = {} THEN -1
        ELSE (CHOOSE i \in at : \A j \in at : i >= j) - 1

\* s[start:end] for 0 <= start <= end <= len(s)
Slice(s, start, end) == SubSeq(s, start + 1, end)

RECURSIVE Join(_, _)
\* sep.join(parts)
Join(sep, parts) ==
    IF parts = <<>> THEN <<>>
    ELSE IF Len(parts) = 1 THEN parts[1]
    ELSE parts[1] \o sep \o Join(sep, Tail(parts))

(***************************************************************************)
(* json.loads, on the JSON grammar over the characters the model uses:     *)
(* arrays, objects, strings with the escapes \" \\ \n, integer literals,   *)
(* null, true, false, and whitespace between tokens.                       *)
(***************************************************************************)
\* the digits of the model's integer literals (no sign, fraction or exponent)
Digits == {"1"}

ParseFail == [ok |-> FALSE, v |-> PyNone, i |-> 0]
ParseOk(v, i) == [ok |-> TRUE, v |-> v, i |-> i]

\* first position >= i that holds no whitespace (Len(t) + 1 at the end)
SkipWS(t, i) ==
    CHOOSE j \in i..(Len(t) + 1) :
        /\ j = Len(t) + 1 \/ t[j] \notin Whitespace
        /\ \A k \in i..(j - 1) : t[k] \in Whitespace

\* does word stand at position i of t
MatchAt(t, i, word) ==
    /\ i + Len(word) - 1 <= Len(t)
    /\ \A k \in 1..Len(word) : t[i + k - 1] = word[k]

RECURSIVE ScanString(_, _, _)
\* the string whose opening quote precedes position i; acc is what was read
ScanString(t, i, acc) ==
    IF i > Len(t) THEN ParseFail
    ELSE IF t[i] = "\"" THEN ParseOk(PyStrVal(acc), i + 1)
    ELSE IF t[i] = "\n" THEN ParseFail
    ELSE IF t[i] = "\\" THEN
        IF i + 1 > Len(t) THEN ParseFail
        ELSE IF t[i + 1] \in {"\"", "\\"} THEN ScanString(t, i + 2, Append(acc, t[i + 1]))
        ELSE IF t[i + 1] = "n" THEN ScanString(t, i + 2, Append(acc, "\n"))
        ELSE ParseFail
    ELSE ScanString(t, i + 1, Append(acc, t[i]))

\* the integer literal that starts at position i
ScanNumber(t, i) ==
    LET end == CHOOSE j \in (i + 1)..(Len(t) + 1) :
                   /\ j = Len(t) + 1 \/ t[j] \notin Digits
                   /\ \A k \in i..(j - 1) : t[k] \in Digits
    IN  ParseOk(PyNum(SubSeq(t, i, end - 1)), end)

RECURSIVE ScanValue(_, _), ScanArray(_, _, _), ScanObject(_, _, _)
\* one JSON value starting exactly at position i
ScanValue(t, i) ==
    IF i > Len(t) THEN ParseFail
    ELSE IF t[i] = "\"" THEN ScanString(t, i + 1, <<>>)
    ELSE IF t[i] = "[" THEN
        LET j == SkipWS(t, i + 1)
        IN  IF j <= Len(t) /\ t[j] = "]" THEN ParseOk(PyList(<<>>), j + 1)
            ELSE ScanArray(t, j, <<>>)
    ELSE IF t[i] = "{" THEN
        LET j == SkipWS(t, i + 1)
        IN  IF j <= Len(t) /\ t[j] = "}" THEN ParseOk(PyDict(<<>>, <<>>), j + 1)
            ELSE ScanObject(t, j, PyDict(<<>>, <<>>))
    ELSE IF t[i] \in Digits THEN ScanNumber(t, i)
    ELSE IF MatchAt(t, i, <<"n", "u", "l", "l">>) THEN ParseOk(PyNone, i + 4)
    ELSE IF MatchAt(t, i, <<"t", "r", "u", "e">>)
        THEN ParseOk(PyBool(<<"T", "r", "u", "e">>), i + 4)
    ELSE IF MatchAt(t, i, <<"f", "a", "l", "s", "e">>)
        THEN ParseOk(PyBool(<<"F", "a", "l", "s", "e">>), i + 5)
    ELSE ParseFail

\* the elements of an array from position i on; acc holds those already read
ScanArray(t, i, acc) ==
    LET r == ScanValue(t, i)
    IN  IF ~r.ok THEN ParseFail
        ELSE LET j == SkipWS(t, r.i)
                 got == Append(acc, r.v)
             IN  IF j > Len(t) THEN ParseFail
                 ELSE IF t[j] = "]" THEN ParseOk(PyList(got), j + 1)
                 ELSE IF t[j] = "," THEN ScanArray(t, SkipWS(t, j + 1), got)
                 ELSE ParseFail

\* the members of an object from position i (a key's opening quote) on
ScanObject(t, i, acc) ==
    IF i > Len(t) \/ t[i] # "\"" THEN ParseFail
    ELSE LET k == ScanString(t, i + 1, <<>>)
         IN  IF ~k.ok THEN ParseFail
             ELSE LET c == SkipWS(t, k.i)
                  IN  IF c > Len(t) \/ t[c] # ":" THEN ParseFail
                      ELSE LET r == ScanValue(t, SkipWS(t, c + 1))
                           IN  IF ~r.ok THEN ParseFail
                               ELSE LET j == SkipWS(t, r.i)
                                        got == DictPut(acc, k.v.s, r.v)
                                    IN  IF j > Len(t) THEN ParseFail
                                        ELSE IF t[j] = "}" THEN ParseOk(got, j + 1)
                                        ELSE IF t[j] = ","
                                            THEN ScanObject(t, SkipWS(t, j + 1), got)
                                        ELSE ParseFail

\* json.loads(t): [ok, v]; ok is FALSE where json.loads raises
JsonLoads(t) ==
    LET r == ScanValue(t, SkipWS(t, 1))
    IN  IF r.ok /\ SkipWS(t, r.i) = Len(t) + 1
        THEN [ok |-> TRUE, v |-> r.v]
        ELSE [ok |-> FALSE, v |-> PyNone]

(***************************************************************************)
(* json.dumps(v, ensure_ascii=False) for the values the handler stores:    *)
(* strings, None, lists and dicts, with the default separators.            *)
(***************************************************************************)
RECURSIVE EscapeJson(_)
\* the characters of a string as they stand between the quotes
EscapeJson(s) ==
    IF s = <<>> THEN <<>>
    ELSE (IF Head(s) = "\"" THEN <<"\\", "\"">>
          ELSE IF Head(s) = "\\" THEN <<"\\", "\\">>
          ELSE IF Head(s) = "\n" THEN <<"\\", "n">>
          ELSE <<Head(s)>>) \o EscapeJson(Tail(s))

\* variant: the string between quotes without any escaping
JsonQuoteRaw(s) == <<"\"">> \o s \o <<"\"">>

\* a string as a JSON string literal
JsonQuote(s) == <<"\"">> \o EscapeJson(s) \o <<"\"">>

RECURSIVE JsonDumps(_), DumpItems(_), DumpMembers(_, _)
JsonDumps(v) ==
    IF v.t = "str" THEN JsonQuote(v.s)
    ELSE IF v.t = "null" THEN <<"n", "u", "l", "l">>
    ELSE IF v.t = "num" THEN v.s
    ELSE IF v.t = "bool"
        THEN (IF v.s[1] = "T" THEN <<"t", "r", "u", "e">> ELSE <<"f", "a", "l", "s", "e">>)
    ELSE IF v.t = "list" THEN <<"[">> \o DumpItems(v.kids) \o <<"]">>
    ELSE <<"{">> \o DumpMembers(v.keys, v.kids) \o <<"}">>

DumpItems(kids) ==
    IF kids = <<>> THEN <<>>
    ELSE IF Len(kids) = 1 THEN JsonDumps(kids[1])
    ELSE JsonDumps(kids[1]) \o <<",", " ">> \o DumpItems(Tail(kids))

DumpMembers(keys, kids) ==
    IF keys = <<>> THEN <<>>
    ELSE LET m == JsonQuote(keys[1]) \o <<":", " ">> \o JsonDumps(kids[1])
         IN  IF Len(keys) = 1 THEN m
             ELSE m \o <<",", " ">> \o DumpMembers(Tail(keys), Tail(kids))

(***************************************************************************)
(* str(v): a string is itself, an int its digits, None "None", a bool      *)
(* "True" or "False", a list or dict its repr.                             *)
(***************************************************************************)
RECURSIVE EscapeRepr(_)
EscapeRepr(s) ==
    IF s = <<>> THEN <<>>
    ELSE (IF Head(s) = "\\" THEN <<"\\", "\\">>
          ELSE IF Head(s) = "\n" THEN <<"\\", "n">>
          ELSE IF Head(s) = "'" THEN <<"\\", "'">>
          ELSE <<Head(s)>>) \o EscapeRepr(Tail(s))

RECURSIVE PyRepr(_), ReprItems(_), ReprMembers(_, _)
PyRepr(v) ==
    IF v.t = "str" THEN <<"'">> \o EscapeRepr(v.s) \o <<"'">>
    ELSE IF v.t = "null" THEN <<"N", "o", "n", "e">>
    ELSE IF v.t \in {"num", "bool"} THEN v.s
    ELSE IF v.t = "list" THEN <<"[">> \o ReprItems(v.kids) \o <<"]">>
    ELSE <<"{">> \o ReprMembers(v.keys, v.kids) \o <<"}">>

ReprItems(kids) ==
    IF kids = <<>> THEN <<>>
    ELSE IF Len(kids) = 1 THEN PyRepr(kids[1])
    ELSE PyRepr(kids[1]) \o <<",", " ">> \o ReprItems(Tail(kids))

ReprMembers(keys, kids) ==
    IF keys = <<>> THEN <<>>
    ELSE LET m == PyRepr(PyStrVal(keys[1])) \o <<":", " ">> \o PyRepr(kids[1])
         IN  IF Len(keys) = 1 THEN m
             ELSE m \o <<",", " ">> \o ReprMembers(Tail(keys), Tail(kids))

PyStr(v) == IF v.t = "str" THEN v.s ELSE PyRepr(v)

(***************************************************************************)
(* ask_openai_for_movies.  resp is what client.responses.create does:      *)
(* [raises, output_text, output], output a sequence of items [kind, texts] *)
(* (kind "dict": a dict whose content list holds dicts with these texts;   *)
(* "str": a bare string; "obj": anything else).                            *)
(***************************************************************************)
RECURSIVE Pieces(_)
\* the pieces the fallback loop collects from resp.output
Pieces(output) ==
    IF output = <<>> THEN <<>>
    ELSE (IF Head(output).kind = "dict" THEN Head(output).texts
          ELSE IF Head(output).kind = "str" THEN <<Head(output).texts[1]>>
          ELSE <<>>) \o Pieces(Tail(output))

\* the text the parsing works on
ResponseText(resp) ==
    LET text == Strip(resp.output_text)
    IN  IF text # <<>> THEN text
        ELSE Strip(Join(<<"\n">>, Pieces(resp.output)))

\* variant: whatever JSON value the text parses to is taken for the list
ExtractAnyJson(text) ==
    LET direct == JsonLoads(text)
    IN  IF direct.ok THEN direct
        ELSE LET start == Find(text, "[")
                 end == RFind(text, "]")
             IN  IF start # -1 /\ end # -1 /\ end > start
                 THEN JsonLoads(Slice(text, start, end + 1))
                 ELSE [ok |-> FALSE, v |-> PyNone]

\* the text parsed as a JSON list, directly or from its first "[" to its last "]"
ExtractArray(text) ==
    LET direct == JsonLoads(text)
    IN  IF direct.ok /\ IsList(direct.v) THEN direct
        ELSE LET start == Find(text, "[")
                 end == RFind(text, "]")
             IN  IF start # -1 /\ end # -1 /\ end > start
                 THEN LET sub == JsonLoads(Slice(text, start, end + 1))
                      IN  IF sub.ok /\ IsList(sub.v) THEN sub
                          ELSE [ok |-> FALSE, v |-> PyNone]
                 ELSE [ok |-> FALSE, v |-> PyNone]

\* variant: a raising upstream call is tried a second time
ask_openai_with_retry(user_input, resp) ==
    IF resp.raises THEN [ok |-> FALSE, movie_list |-> <<>>, calls |-> 2]
    ELSE LET parsed == ExtractArray(ResponseText(resp))
         IN  IF ResponseText(resp) # <<>> /\ parsed.ok
             THEN [ok |-> TRUE, movie_list |-> parsed.v.kids, calls |-> 1]
             ELSE [ok |-> FALSE, movie_list |-> <<>>, calls |-> 1]

\* [ok, movie_list, calls]: ok is FALSE where the function raises; calls counts
\* the requests sent to the upstream model
ask_openai_for_movies(user_input, resp) ==
    IF resp.raises THEN [ok |-> FALSE, movie_list |-> <<>>, calls |-> 1]
    ELSE LET text == ResponseText(resp)
         IN  IF text = <<>> THEN [ok |-> FALSE, movie_list |-> <<>>, calls |-> 1]
             ELSE LET parsed == ExtractArray(text)
                  IN  IF parsed.ok
                      THEN [ok |-> TRUE, movie_list |-> parsed.v.kids, calls |-> 1]
                      ELSE [ok |-> FALSE, movie_list |-> <<>>, calls |-> 1]

(***************************************************************************)
(* recommend: validation, normalisation, the row it stores                 *)
(***************************************************************************)
Title == <<"t", "i", "t", "l", "e">>
Year == <<"y", "e", "a", "r">>
Reason == <<"r", "e", "a", "s", "o", "n">>

\* variant: only the empty string is refused
IsEmptyInput(user_input) == user_input = <<>>

\* not payload.user_input or not payload.user_input.strip()
IsBlankInput(user_input) == user_input = <<>> \/ Strip(user_input) = <<>>

\* variant: the value is kept as the model gave it
OptionalRaw(item, k) == DictGet(item, k)

\* str(item.get(k)) if item.get(k) is not None else None
OptionalStr(item, k) ==
    IF DictGet(item, k).t = "null" THEN PyNone ELSE PyStrVal(PyStr(DictGet(item, k)))

\* variant: bare strings are dropped like any other item
NormalizeItemDictsOnly(item) ==
    IF IsDict(item) /\ HasKey(item, Title)
    THEN << PyDict(<<Title, Year, Reason>>,
                   << PyStrVal(Strip(PyStr(DictGet(item, Title)))),
                      OptionalStr(item, Year),
                      OptionalStr(item, Reason) >>) >>
    ELSE <<>>

\* the record appended for one item: a sequence of no or one record
NormalizeItem(item) ==
    IF IsDict(item) /\ HasKey(item, Title)
    THEN << PyDict(<<Title, Year, Reason>>,
                   << PyStrVal(Strip(PyStr(DictGet(item, Title)))),
                      OptionalStr(item, Year),
                      OptionalStr(item, Reason) >>) >>
    ELSE IF IsStr(item)
    THEN << PyDict(<<Title, Year, Reason>>, <<PyStrVal(Strip(item.s)), PyNone, PyNone>>) >>
    ELSE <<>>

RECURSIVE Normalize(_)
Normalize(movie_list) ==
    IF movie_list = <<>> THEN <<>>
    ELSE NormalizeItem(Head(movie_list)) \o Normalize(Tail(movie_list))

\* variant: the input is stored as submitted
NewRecommendationRaw(user_input, normalized, now) ==
    [ user_input |-> user_input,
      recommended_movies |-> JsonDumps(PyList(normalized)),
      created_at |-> now ]

\* Recommendation(user_input=..., recommended_movies=..., created_at=...)
NewRecommendation(user_input, normalized, now) ==
    [ user_input |-> Strip(user_input),
      recommended_movies |-> JsonDumps(PyList(normalized)),
      created_at |-> now ]

\* variant: the row takes the place of the newest row
PersistOverwrite(table, rec) ==
    LET row == [ id |-> IF table = <<>> THEN 1 ELSE Len(table),
                 user_input |-> rec.user_input,
                 recommended_movies |-> rec.recommended_movies,
                 created_at |-> rec.created_at ]
    IN  IF table = <<>> THEN <<row>> ELSE [table EXCEPT ![Len(table)] = row]

\* db.add(rec); db.commit(): the table with the row added under the next id
Persist(table, rec) ==
    Append(table, [ id |-> Len(table) + 1,
                    user_input |-> rec.user_input,
                    recommended_movies |-> rec.recommended_movies,
                    created_at |-> rec.created_at ])

(***************************************************************************)
(* get_history                                                             *)
(***************************************************************************)
\* number of rows LIMIT lets through out of n (SQLite: a negative LIMIT is no limit)
LimitCount(limit, n) == IF limit < 0 THEN n ELSE IF limit < n THEN limit ELSE n

\* variant: ORDER BY created_at ASC
AscendingOrders(table) ==
    { p \in [1..Len(table) -> 1..Len(table)] :
        /\ \A i, j \in 1..Len(table) : i # j => p[i] # p[j]
        /\ \A i, j \in 1..Len(table) :
              i < j => table[p[i]].created_at <= table[p[j]].created_at }

\* ORDER BY created_at DESC: every order of the row numbers that is descending
\* in created_at (rows with equal created_at come in any order)
DescendingOrders(table) ==
    { p \in [1..Len(table) -> 1..Len(table)] :
        /\ \A i, j \in 1..Len(table) : i # j => p[i] # p[j]
        /\ \A i, j \in 1..Len(table) :
              i < j => table[p[i]].created_at >= table[p[j]].created_at }

\* the row lists the query can return
QueryRows(table, limit) ==
    { [i \in 1..LimitCount(limit, Len(table)) |-> table[p[i]]] : p \in DescendingOrders(table) }

\* datetime.isoformat(): the timestamp rendered as text
IsoFormat(ts) == [iso |-> ts]

\* the dict built for one row
HistoryRow(r) ==
    [ id |-> r.id,
      user_input |-> r.user_input,
      recommended_movies |-> JsonLoads(r.recommended_movies).v,
      created_at |-> IsoFormat(r.created_at) ]

(***************************************************************************)
(* Bounds and the inputs the environment chooses from                      *)
(***************************************************************************)
MaxInput == 1
MaxRaw == 3
MaxItems == 2
MaxRecords == 2
MaxClock == 1
MaxLimit == 2

\* limit: int = 20
DefaultLimit == 20

RECURSIVE SeqsUpTo(_, _)
\* every sequence over S of length at most n
SeqsUpTo(S, n) ==
    IF n = 0 THEN {<<>>}
    ELSE LET shorter == SeqsUpTo(S, n - 1)
         IN  shorter \cup {Append(q, c) : q \in shorter, c \in S}

\* user_input values of single-request runs
InputChars == {" ", "a"}
FnInputs == SeqsUpTo(InputChars, MaxInput)

\* user_input values of multi-request runs
Inputs == { <<>>, <<" ">>, <<" ", "a", " ">> }

\* limit values of GET /history
Limits == -1..MaxLimit

\* a response of the upstream model with this output_text
TextResponse(text) == [raises |-> FALSE, output_text |-> text, output |-> <<>>]
Raising == [raises |-> TRUE, output_text |-> <<>>, output |-> <<>>]

RECURSIVE WriteString(_)
\* the characters of a string as a model writes them between quotes
WriteString(s) ==
    IF s = <<>> THEN <<>>
    ELSE (IF Head(s) \in {"\"", "\\"} THEN <<"\\", Head(s)>>
          ELSE IF Head(s) = "\n" THEN <<"\\", "n">>
          ELSE <<Head(s)>>) \o WriteString(Tail(s))

RECURSIVE WriteJson(_), WriteItems(_), WriteMembers(_, _)
\* the compact JSON text a model writes for a value
WriteJson(v) ==
    IF v.t = "str" THEN <<"\"">> \o WriteString(v.s) \o <<"\"">>
    ELSE IF v.t = "null" THEN <<"n", "u", "l", "l">>
    ELSE IF v.t = "num" THEN v.s
    ELSE IF v.t = "bool"
        THEN (IF v.s[1] = "T" THEN <<"t", "r", "u", "e">> ELSE <<"f", "a", "l", "s", "e">>)
    ELSE IF v.t = "list" THEN <<"[">> \o WriteItems(v.kids) \o <<"]">>
    ELSE <<"{">> \o WriteMembers(v.keys, v.kids) \o <<"}">>

WriteItems(kids) ==
    IF kids = <<>> THEN <<>>
    ELSE IF Len(kids) = 1 THEN WriteJson(kids[1])
    ELSE WriteJson(kids[1]) \o <<",">> \o WriteItems(Tail(kids))

WriteMembers(keys, kids) ==
    IF keys = <<>> THEN <<>>
    ELSE LET m == <<"\"">> \o WriteString(keys[1]) \o <<"\"", ":", " ">> \o WriteJson(kids[1])
         IN  IF Len(keys) = 1 THEN m
             ELSE m \o <<",", " ">> \o WriteMembers(Tail(keys), Tail(kids))

\* elements a model may put in its array
TitledFull ==
    PyDict(<<Title, Year, Reason>>,
           <<PyStrVal(<<" ", "a", "\"">>), PyNum(<<"1">>), PyStrVal(<<"a", "\\", "\n", "a">>)>>)
TitledNull == PyDict(<<Title, Year>>, <<PyNone, PyNone>>)
TitledList ==
    PyDict(<<Reason, Title>>, <<PyBool(<<"T", "r", "u", "e">>), PyList(<<PyStrVal(<<"a">>)>>)>>)
Untitled == PyDict(<<Year>>, <<PyStrVal(<<"1">>)>>)
BareString == PyStrVal(<<"a", " ">>)
ModelItems ==
    { TitledFull, TitledNull, TitledList, Untitled, BareString,
      PyNum(<<"1">>), PyList(<<PyStrVal(<<"a">>)>>) }

\* the texts a model may wrap around the JSON text a of an array
Wrapped(a) ==
    { a,
      <<" ">> \o a \o <<"\n">>,
      <<"a", ":", " ">> \o a,
      <<"a", " ">> \o a \o <<"\n", "a">>,
      <<"{", "\"", "a", "\"", ":", " ">> \o a \o <<"}">>,
      <<"[", "a", "]", " ">> \o a,
      a \o <<" ", "]">> }

ArrayTexts ==
    UNION { Wrapped(WriteJson(PyList(items))) : items \in SeqsUpTo(ModelItems, MaxItems) }

\* every short text over the characters that matter to the extraction
RawChars == {"[", "]", "\"", "a", "1"}
RawTexts == SeqsUpTo(RawChars, MaxRaw)

\* responses whose output_text is empty and whose output may hold the text
FallbackResponses ==
    { [raises |-> FALSE, output_text |-> ot, output |-> o] :
        ot \in {<<>>, <<" ">>},
        o \in { <<>>,
                <<[kind |-> "obj", texts |-> <<>>]>>,
                <<[kind |-> "str", texts |-> << <<"[", "\"", "a", "\"">> >>],
                  [kind |-> "dict", texts |-> << <<",", "1">>, <<"]", " ">> >>]>>,
                <<[kind |-> "dict", texts |-> << <<" ">> >>]>>,
                <<[kind |-> "str", texts |-> << <<"a">> >>]>> } }

\* the upstream responses of single-request runs
FnUpstreams ==
    {Raising} \cup FallbackResponses \cup {TextResponse(t) : t \in RawTexts \cup ArrayTexts}

\* the upstream responses of multi-request runs
Upstreams ==
    { Raising,
      TextResponse(<<"a">>),
      TextResponse(WriteJson(PyList(<<TitledFull>>))),
      TextResponse(<<"a", ":", " ">> \o WriteJson(PyList(<<BareString, PyNone>>))) }

(***************************************************************************)
(* State                                                                   *)
(***************************************************************************)
VARIABLES
    store,      \* the recommendations table, rows in insertion order
    inflight,   \* POST /recommend requests that built their row and have not committed
    clock,      \* what datetime.utcnow() returns
    last,       \* the response sent last; seq flips with every response
    log,        \* history variable: per stored row, the call that stored it
    req         \* the request of a single-request run

vars == <<store, inflight, clock, last, log, req>>

NoRequest == [user_input |-> <<>>, resp |-> Raising]

Response(op, status, limit, calls, movie_list, body, rows) ==
    [ op |-> op, status |-> status, limit |-> limit, calls |-> calls,
      movie_list |-> movie_list, recommendations |-> body, results |-> rows,
      seq |-> 1 - last.seq ]

Idle ==
    /\ store = <<>>
    /\ inflight = <<>>
    /\ clock = 0
    /\ last = [ op |-> "none", status |-> 0, limit |-> 0, calls |-> 0, movie_list |-> <<>>,
                recommendations |-> <<>>, results |-> <<>>, seq |-> 0 ]
    /\ log = <<>>

Init == Idle /\ req = NoRequest

\* POST /recommend up to the built row: the 400, the 500, or the row awaiting commit
recommend(user_input, resp) ==
    /\ Len(store) + Len(inflight) < MaxRecords
    /\ IF IsBlankInput(user_input)
       THEN /\ last' = Response("recommend", 400, 0, 0, <<>>, <<>>, <<>>)
            /\ UNCHANGED inflight
       ELSE LET r == ask_openai_for_movies(user_input, resp)
                normalized == Normalize(r.movie_list)
            IN  IF ~r.ok
                THEN /\ last' = Response("recommend", 500, 0, r.calls, <<>>, <<>>, <<>>)
                     /\ UNCHANGED inflight
                ELSE /\ inflight' = Append(inflight,
                            [ user_input |-> user_input,
                              calls |-> r.calls,
                              movie_list |-> r.movie_list,
                              normalized |-> normalized,
                              rec |-> NewRecommendation(user_input, normalized, clock) ])
                     /\ UNCHANGED last
    /\ UNCHANGED <<store, clock, log, req>>

\* POST /recommend from db.add on: the commit and the 200
recommend_commit(k) ==
    /\ k \in 1..Len(inflight)
    /\ store' = Persist(store, inflight[k].rec)
    /\ inflight' = [i \in 1..(Len(inflight) - 1) |->
                       IF i < k THEN inflight[i] ELSE inflight[i + 1]]
    /\ last' = Response("recommend", 200, 0, inflight[k].calls, inflight[k].movie_list,
                        inflight[k].normalized, <<>>)
    /\ log' = Append(log, [ user_input |-> inflight[k].user_input,
                            recommendations |-> inflight[k].normalized ])
    /\ UNCHANGED <<clock, req>>

\* GET /history
get_history(limit) ==
    /\ \E rows \in QueryRows(store, limit) :
          IF \A i \in 1..Len(rows) : JsonLoads(rows[i].recommended_movies).ok
          THEN last' = Response("history", 200, limit, 0, <<>>, <<>>,
                                [i \in 1..Len(rows) |-> HistoryRow(rows[i])])
          ELSE last' = Response("history", 500, limit, 0, <<>>, <<>>, <<>>)
    /\ UNCHANGED <<store, inflight, clock, log, req>>

\* time passes
Tick ==
    /\ clock < MaxClock
    /\ clock' = clock + 1
    /\ UNCHANGED <<store, inflight, last, log, req>>

Next ==
    \/ \E user_input \in Inputs, resp \in Upstreams : recommend(user_input, resp)
    \/ \E k \in 1..Len(inflight) : recommend_commit(k)
    \/ \E limit \in Limits : get_history(limit)
    \/ Tick

Spec == Init /\ [][Next]_vars

(***************************************************************************)
(* Single-request runs: one POST /recommend with a request drawn from the  *)
(* full input sets, followed by one GET /history                           *)
(***************************************************************************)
InitFn == Idle /\ req \in [user_input : FnInputs, resp : FnUpstreams]

NextFn ==
    \/ last.op = "none" /\ inflight = <<>> /\ recommend(req.user_input, req.resp)
    \/ recommend_commit(1)
    \/ last.op = "recommend" /\ get_history(DefaultLimit)

SpecFn == InitFn /\ [][NextFn]_vars

(***************************************************************************)
(* Vocabulary of the properties                                            *)
(***************************************************************************)
\* empty or made of whitespace only
Blank(s) == \A i \in 1..Len(s) : s[i] \in Whitespace

\* the text of a response: output_text, or the pieces of output when that is blank
ModelText(resp) ==
    IF ~Blank(resp.output_text) THEN resp.output_text
    ELSE Join(<<"\n">>, Pieces(resp.output))

\* a "[" followed later by a "]"
HasBracketPair(text) ==
    \E i, j \in 1..Len(text) : i < j /\ text[i] = "[" /\ text[j] = "]"

\* the text is a well-formed JSON array
IsJsonArray(text) ==
    LET parsed == JsonLoads(text)
    IN  parsed.ok /\ IsList(parsed.v)

\* the substring from the first "[" to the last "]" of a text that has both
Embedded(text) ==
    LET first == CHOOSE i \in 1..Len(text) :
                     text[i] = "[" /\ \A k \in 1..(i - 1) : text[k] # "["
        final == CHOOSE j \in 1..Len(text) :
                     text[j] = "]" /\ \A k \in (j + 1)..Len(text) : text[k] # "]"
    IN  SubSeq(text, first, final)

\* an array element that gets a record
Kept(e) == IsStr(e) \/ (IsDict(e) /\ HasKey(e, Title))

\* a value is None or a string
NoneOrStr(v) == v.t \in {"null", "str"}

\* r has the shape of a MovieSuggestion
WellFormed(r) ==
    /\ IsDict(r)
    /\ r.keys = <<Title, Year, Reason>>
    /\ IsStr(r.kids[1])
    /\ NoneOrStr(r.kids[2])
    /\ NoneOrStr(r.kids[3])

\* r is the record of the array element e
RecordOf(e, r) ==
    /\ WellFormed(r)
    /\ IF IsStr(e)
       THEN r.kids[1].s = Strip(e.s) /\ r.kids[2] = PyNone /\ r.kids[3] = PyNone
       ELSE /\ r.kids[1].s = Strip(PyStr(DictGet(e, Title)))
            /\ \A n \in 2..3 :
                  IF DictGet(e, r.keys[n]) = PyNone THEN r.kids[n] = PyNone
                  ELSE r.kids[n] = PyStrVal(PyStr(DictGet(e, r.keys[n])))

\* recs holds one record per kept element of elems, in their order, and no other
RecordsOf(elems, recs) ==
    LET kept == SelectSeq(elems, Kept)
    IN  /\ Len(recs) = Len(kept)
        /\ \A k \in 1..Len(kept) : RecordOf(kept[k], recs[k])

\* the POST /recommend of a single-request run has been answered
Answered == last.op = "recommend"

\* this step sends the response of a request
Responds == last'.seq # last.seq

Min(a, b) == IF a < b THEN a ELSE b

(***************************************************************************)
(* C1: a POST /recommend whose user_input is empty or whitespace only ends *)
(* with status 400, without any call to the upstream model and without a   *)
(* row built or stored.                                                    *)
(***************************************************************************)
C1_BlankInputIs400 ==
    Blank(req.user_input) =>
        /\ inflight = <<>> /\ store = <<>>
        /\ Answered => last.status = 400 /\ last.calls = 0

\* a whitespace-only input was refused although the model would have answered well
C1_Witness ==
    /\ Answered /\ last.status = 400 /\ last.calls = 0
    /\ req.user_input = <<" ">>
    /\ ~req.resp.raises /\ IsJsonArray(req.resp.output_text)

(***************************************************************************)
(* C2: a POST /recommend with non-blank input ends with status 500 when    *)
(* the upstream call raises, or the model's text is empty, or the text has *)
(* no "[" followed later by a "]".                                         *)
(***************************************************************************)
C2_UpstreamFailureIs500 ==
    ( /\ ~Blank(req.user_input)
      /\ \/ req.resp.raises
         \/ Blank(ModelText(req.resp))
         \/ ~HasBracketPair(ModelText(req.resp)) )
    => /\ inflight = <<>> /\ store = <<>>
       /\ Answered => last.status = 500

\* a 500 for a text that has both brackets, but no "[" before a "]"
C2_Witness ==
    /\ Answered /\ last.status = 500
    /\ ~Blank(req.user_input) /\ ~req.resp.raises
    /\ req.resp.output_text = <<"]", "[">>

(***************************************************************************)
(* C3: when the model's text is not itself a JSON array but its substring  *)
(* from the first "[" to the last "]" is one, ask_openai_for_movies        *)
(* returns exactly that embedded array and the request succeeds with the   *)
(* records of that array.                                                  *)
(***************************************************************************)
C3_EmbeddedArrayIsExtracted ==
    LET text == Strip(ModelText(req.resp))
    IN  ( /\ Answered
          /\ ~Blank(req.user_input) /\ ~req.resp.raises
          /\ ~IsJsonArray(text)
          /\ HasBracketPair(text)
          /\ IsJsonArray(Embedded(text)) )
        => LET array == JsonLoads(Embedded(text)).v.kids
           IN  /\ last.status = 200
               /\ last.movie_list = array
               /\ RecordsOf(array, last.recommendations)

\* an array with a nested array, between prose on both sides, was extracted
C3_Witness ==
    LET text == Strip(ModelText(req.resp))
    IN  /\ Answered /\ last.status = 200
        /\ ~IsJsonArray(text) /\ ~JsonLoads(text).ok
        /\ text[1] = "a" /\ text[Len(text)] = "a"
        /\ \E i \in 1..Len(last.movie_list) : IsList(last.movie_list[i])
        /\ Len(last.recommendations) = 1

(***************************************************************************)
(* C4: when the model's text is a well-formed JSON array, POST /recommend  *)
(* succeeds with one record for each array element that is an object with  *)
(* a "title" key or a bare string, in the array's order, and no record for *)
(* any other element.                                                      *)
(***************************************************************************)
C4_ArrayIsNormalized ==
    LET text == Strip(ModelText(req.resp))
    IN  ( /\ Answered
          /\ ~Blank(req.user_input) /\ ~req.resp.raises
          /\ IsJsonArray(text) )
        => /\ last.status = 200
           /\ RecordsOf(JsonLoads(text).v.kids, last.recommendations)

\* an array of a bare string and an object without title gave one record
C4_Witness ==
    /\ Answered /\ last.status = 200
    /\ IsJsonArray(req.resp.output_text)
    /\ JsonLoads(req.resp.output_text).v.kids = <<BareString, Untitled>>
    /\ Len(last.recommendations) = 1
    /\ last.recommendations[1].kids[1] = PyStrVal(<<"a">>)

(***************************************************************************)
(* C5: GET /history with limit L, the store holding N rows, returns        *)
(* min(L, N) rows of the store, each once; they are in descending order of *)
(* created_at and no row left out is newer than a returned one.            *)
(***************************************************************************)
HistoryIsNewestFirst ==
    /\ \A i \in 1..Len(last.results) :
          \E k \in 1..Len(store) : last.results[i] = HistoryRow(store[k])
    /\ \A i, j \in 1..Len(last.results) :
          i < j => /\ last.results[i].id # last.results[j].id
                   /\ last.results[i].created_at.iso >= last.results[j].created_at.iso
    /\ \A k \in 1..Len(store) :
          (\A i \in 1..Len(last.results) : last.results[i].id # store[k].id)
          => \A i \in 1..Len(last.results) :
                 last.results[i].created_at.iso >= store[k].created_at

\* the claim as stated: min(L, N) rows for every L
C5_HistoryHonoursLimit ==
    last.op = "history" =>
        /\ last.status = 200
        /\ Len(last.results) = Min(last.limit, Len(store))
        /\ HistoryIsNewestFirst

\* as amended: min(L, N) rows for L >= 0, all N rows for a negative L
C5_HistoryHonoursNonNegativeLimit ==
    last.op = "history" =>
        /\ last.status = 200
        /\ Len(last.results) =
              IF last.limit >= 0 THEN Min(last.limit, Len(store)) ELSE Len(store)
        /\ HistoryIsNewestFirst

\* limit 1 returned the newer of two rows, which is the one committed first
C5_Witness ==
    /\ last.op = "history" /\ last.limit = 1
    /\ Len(store) = 2
    /\ store[1].created_at > store[2].created_at
    /\ Len(last.results) = 1 /\ last.results[1].id = 1

(***************************************************************************)
(* C6: the suggestion list GET /history returns for a stored row (the      *)
(* stored JSON text parsed back) equals the recommendations list returned  *)
(* by the POST /recommend call that stored the row.                        *)
(***************************************************************************)
C6_RoundTrip ==
    last.op = "history" =>
        /\ last.status = 200
        /\ Len(last.results) = Len(store)
        /\ \A i \in 1..Len(last.results) :
              last.results[i].recommended_movies =
                  PyList(log[last.results[i].id].recommendations)

\* a list with a title that needs escaping in JSON came back unchanged
C6_Witness ==
    /\ last.op = "history" /\ Len(last.results) = 1
    /\ Len(log[1].recommendations) = 2
    /\ \E k \in 1..2 : \E c \in 1..Len(log[1].recommendations[k].kids[3].s) :
          log[1].recommendations[k].kids[3].s[c] \in {"\\", "\n"}
    /\ \E k \in 1..2 : \E c \in 1..Len(log[1].recommendations[k].kids[1].s) :
          log[1].recommendations[k].kids[1].s[c] = "\""

(***************************************************************************)
(* C7: every stored row's recommended_movies parses to a list of records   *)
(* that each have a string title and a year and a reason that are None or  *)
(* a string.                                                               *)
(***************************************************************************)
C7_StoredListIsWellFormed ==
    \A k \in 1..Len(store) :
        LET loaded == JsonLoads(store[k].recommended_movies)
        IN  /\ loaded.ok /\ IsList(loaded.v)
            /\ \A i \in 1..Len(loaded.v.kids) : WellFormed(loaded.v.kids[i])

\* a row stored from an array whose titles were null and a list, its year a number
C7_Witness ==
    /\ Len(store) = 1
    /\ Strip(req.resp.output_text) = WriteJson(PyList(<<TitledNull, TitledFull>>))
    /\ Len(JsonLoads(store[1].recommended_movies).v.kids) = 2
    /\ JsonLoads(store[1].recommended_movies).v.kids[1].kids[1] = PyStrVal(<<"N", "o", "n", "e">>)
    /\ JsonLoads(store[1].recommended_movies).v.kids[2].kids[2] = PyStrVal(<<"1">>)

(***************************************************************************)
(* C8: the user_input of a stored row is the text submitted by the request *)
(* that stored it.                                                         *)
(***************************************************************************)
\* the claim as stated: character for character
C8_StoredInputIsRaw ==
    \A k \in 1..Len(store) : store[k].user_input = log[k].user_input

\* stored is raw without its leading and trailing whitespace
Trimmed(raw, stored) ==
    /\ stored # <<>>
    /\ stored[1] \notin Whitespace /\ stored[Len(stored)] \notin Whitespace
    /\ \E pre \in 0..Len(raw) :
          /\ pre + Len(stored) <= Len(raw)
          /\ SubSeq(raw, pre + 1, pre + Len(stored)) = stored
          /\ Blank(SubSeq(raw, 1, pre))
          /\ Blank(SubSeq(raw, pre + Len(stored) + 1, Len(raw)))

\* as amended: the submitted text without its leading and trailing whitespace
C8_StoredInputIsTrimmed ==
    \A k \in 1..Len(store) : Trimmed(log[k].user_input, store[k].user_input)

\* a row stored for an input with whitespace on both sides
C8_Witness ==
    /\ Len(store) >= 1
    /\ log[1].user_input = <<" ", "a", " ">>
    /\ store[1].user_input = <<"a">>

(***************************************************************************)
(* C9: the store is append-only: a stored row keeps its id, user_input,    *)
(* recommended_movies and created_at and is never removed; GET /history    *)
(* leaves the store unchanged; only a successful POST /recommend adds a    *)
(* row.                                                                    *)
(***************************************************************************)
AppendOnlyStep ==
    /\ Len(store') >= Len(store)
    /\ \A k \in 1..Len(store) : store'[k] = store[k]
    /\ (Responds /\ last'.op = "history") => store' = store
    /\ store' # store => Responds /\ last'.op = "recommend" /\ last'.status = 200

C9_StoreIsAppendOnly == [][AppendOnlyStep]_vars

\* two rows stored one after the other, then read
C9_Witness ==
    /\ Len(store) = 2 /\ store[1].id = 1 /\ store[2].id = 2
    /\ last.op = "history" /\ Len(last.results) = 2

(***************************************************************************)
(* C10: a POST /recommend calls the upstream model at most once; when it   *)
(* ends with 400 or 500 the store is left as it was, and when it succeeds  *)
(* the store gains exactly one row.                                        *)
(***************************************************************************)
RecommendStep ==
    (Responds /\ last'.op = "recommend") =>
        /\ last'.calls <= 1
        /\ last'.status \in {200, 400, 500}
        /\ last'.status \in {400, 500} => store' = store
        /\ last'.status = 200 =>
              /\ Len(store') = Len(store) + 1
              /\ SubSeq(store', 1, Len(store)) = store

C10_OneCallOneRow == [][RecommendStep]_vars

\* a request failed after its only call, a row of an earlier request being kept
C10_Witness ==
    /\ last.op = "recommend" /\ last.status = 500 /\ last.calls = 1
    /\ Len(store) = 1

====
